---- MODULE Spec2Model ----
(***************************************************************************)
(* copyspan: Span<T>, a copyable half-open interval [start, end) over the  *)
(* primitive integer types (src/src/lib.rs, src/src/util.rs).              *)
(*                                                                         *)
(* The element types are modelled at reduced width: "u" and "i" are        *)
(* the unsigned / signed fixed-width integers of Bits bits, "usize" is the *)
(* pointer-sized unsigned integer of UsizeBits bits (the only type a Span  *)
(* can index a slice or str with).                                         *)
(***************************************************************************)
EXTENDS Integers, Sequences, FiniteSets

\* Width of the fixed-width element types "u" and "i".
Bits == 3
\* Width of usize.
UsizeBits == 4
\* Longest generic slice [U] that is indexed.
MaxLen == 3

VARIABLES
    T,                \* element type of the span: "u", "i" or "usize"
    overflow_checks,  \* build profile: TRUE when `+` traps on overflow
    rng0,             \* the native range start..end the span was built from
    s,                \* the span binding held by the caller
    pc,               \* "ready", "done", "iter", "iterdone", "panicked"
    op,               \* the method called last
    arg,              \* its integer argument (elem, start, end, len)
    other,            \* the `other` span of overlaps_with
    r,                \* the Span a method returned
    res,              \* the bool a predicate returned
    res2,             \* the bool of the call with the operands exchanged
    rng,              \* the Range<T> returned by range() / into()
    it,               \* the Range<T> iterator being driven by a for loop
    out,              \* the items the iterator has yielded so far
    out1,             \* the items yielded by the first complete iteration
    pass,             \* which iteration of the (copied) span is running
    c,                \* the container being indexed
    idx,              \* the Span<usize> it is indexed with
    view              \* what the index expression evaluates to

vars == <<T, overflow_checks, rng0, s, pc, op, arg, other, r, res, res2, rng,
          it, out, out1, pass, c, idx, view>>

(***************************************************************************)
(* The numeric domain (RustNumber)                                         *)
(***************************************************************************)
Types == {"u", "i"}

BitsOf(t) == IF t = "usize" THEN UsizeBits ELSE Bits

MinOf(t) == IF t = "i" THEN 0 - 2^(BitsOf(t) - 1) ELSE 0

MaxOf(t) == IF t = "i" THEN 2^(BitsOf(t) - 1) - 1 ELSE 2^BitsOf(t) - 1

Dom(t) == MinOf(t)..MaxOf(t)

\* Two's-complement truncation of a mathematical integer to type t.
Wrap(t, x) == ((x - MinOf(t)) % 2^BitsOf(t)) + MinOf(t)

\* Saturating addition, which `+` is not.
AddSaturating(t, a, b, checks) ==
    IF a + b > MaxOf(t) THEN [ok |-> TRUE, val |-> MaxOf(t)]
    ELSE IF a + b < MinOf(t) THEN [ok |-> TRUE, val |-> MinOf(t)]
    ELSE [ok |-> TRUE, val |-> a + b]

\* `a + b` on a primitive integer: the exact sum when representable;
\* otherwise a panic with overflow checks on, the wrapped sum with them off.
Add(t, a, b, checks) ==
    IF a + b \in Dom(t) THEN [ok |-> TRUE, val |-> a + b]
    ELSE IF checks THEN [ok |-> FALSE, val |-> 0]
    ELSE [ok |-> TRUE, val |-> Wrap(t, a + b)]

(***************************************************************************)
(* Range<T>, the native half-open range                                    *)
(***************************************************************************)
RangeOf(a, b) == [start |-> a, end |-> b]

RangeSet(t) == [start : Dom(t), end : Dom(t)]

\* Range::contains(&item)
RangeContains(rg, item) == rg.start <= item /\ item < rg.end

\* Iterator::next for Range<T>
RangeNext(rg) ==
    IF rg.start < rg.end
    THEN [some |-> TRUE, item |-> rg.start,
          rg |-> [start |-> rg.start + 1, end |-> rg.end]]
    ELSE [some |-> FALSE, item |-> 0, rg |-> rg]

\* Driving the iterator to exhaustion (what `for i in s` or collect() does).
RECURSIVE Collect(_)
Collect(rg) ==
    LET n == RangeNext(rg)
    IN  IF n.some THEN <<n.item>> \o Collect(n.rg) ELSE <<>>

(***************************************************************************)
(* Containers and their native range indexing                              *)
(***************************************************************************)
\* A slice [U] of n distinct elements.
RECURSIVE SliceOfLen(_)
SliceOfLen(n) == IF n = 0 THEN <<>> ELSE Append(SliceOfLen(n - 1), 10 * n)

\* The UTF-8 bytes of "hello world".
HelloWorld == <<104, 101, 108, 108, 111, 32, 119, 111, 114, 108, 100>>

\* The UTF-8 bytes of "h\u{e9}": the second character takes two bytes.
Accented == <<104, 195, 169>>

Containers ==
    {[kind |-> "slice", data |-> SliceOfLen(n)] : n \in 0..MaxLen}
        \cup {[kind |-> "str", data |-> d] : d \in {HelloWorld, Accented}}

Panic == [ok |-> FALSE, data |-> <<>>]

\* str::is_char_boundary
is_char_boundary(data, i) ==
    \/ i = 0
    \/ i = Len(data)
    \/ i < Len(data) /\ (data[i + 1] < 128 \/ data[i + 1] >= 192)

\* A lenient variant: out-of-range bounds are clamped instead of trapping.
slice_index_clamped(data, rg) ==
    LET e == IF rg.end > Len(data) THEN Len(data) ELSE rg.end
    IN  IF rg.start > e THEN [ok |-> TRUE, data |-> <<>>]
        ELSE [ok |-> TRUE, data |-> SubSeq(data, rg.start + 1, e)]

\* <[U] as Index<Range<usize>>>::index
slice_index(data, rg) ==
    IF rg.start > rg.end \/ rg.end > Len(data) THEN Panic
    ELSE [ok |-> TRUE, data |-> SubSeq(data, rg.start + 1, rg.end)]

\* <str as Index<Range<usize>>>::index
str_index(data, rg) ==
    IF /\ rg.start <= rg.end
       /\ is_char_boundary(data, rg.start)
       /\ is_char_boundary(data, rg.end)
    THEN [ok |-> TRUE, data |-> SubSeq(data, rg.start + 1, rg.end)]
    ELSE Panic

(***************************************************************************)
(* Span<T>                                                                 *)
(***************************************************************************)
SpanSet(t) == [start : Dom(t), end : Dom(t)]

NoSpan == [start |-> 0, end |-> 0]

\* impl Clone for Span (Copy is the same bitwise duplication)
clone(self) == [start |-> self.start, end |-> self.end]

span_after(self) == [start |-> self.end, end |-> self.end]

span_at(self) == [start |-> self.start, end |-> self.start]

with_len_saturating(t, self, len, checks) ==
    LET e == AddSaturating(t, self.start, len, checks)
    IN  [ok |-> e.ok, span |-> [start |-> self.start, end |-> e.val]]

with_len(t, self, len, checks) ==
    LET e == Add(t, self.start, len, checks)
    IN  IF e.ok
        THEN [ok |-> TRUE, span |-> [start |-> self.start, end |-> e.val]]
        ELSE [ok |-> FALSE, span |-> NoSpan]

with_start(self, start) == [start |-> start, end |-> self.end]

with_end(self, end) == [start |-> self.start, end |-> end]

range(self) == [start |-> self.start, end |-> self.end]

contains_inclusive(self, elem) == self.start <= elem /\ elem <= self.end

contains(self, elem) == RangeContains(range(self), elem)

is_empty_by_order(self) == self.start >= self.end

is_empty(self) == self.start = self.end

overlaps_with_one_sided(self, o) == contains(self, o.start)

overlaps_with_end(self, o) == contains(self, o.start) \/ contains(o, self.end)

overlaps_with_intersect(self, o) ==
    (IF self.start >= o.start THEN self.start ELSE o.start)
        < (IF self.end <= o.end THEN self.end ELSE o.end)

overlaps_with(self, o) == contains(self, o.start) \/ contains(o, self.start)

\* impl From<Range<T>> for Span<T>
from_clamped(value) ==
    IF value.start <= value.end
    THEN [start |-> value.start, end |-> value.end]
    ELSE [start |-> value.start, end |-> value.start]

from(value) == [start |-> value.start, end |-> value.end]

\* impl From<Span<T>> for Range<T>
into(value) == range(value)

\* impl IntoIterator for Span<T>
into_iter_inclusive(self) == [start |-> self.start, end |-> self.end + 1]

into_iter(self) == into(self)

\* impl Index<Span<usize>> for [U]
index_slice_clamped(data, index) == slice_index_clamped(data, range(index))

index_slice(data, index) == slice_index(data, range(index))

\* impl IndexMut<Span<usize>> for [U]
index_mut_slice(data, index) == slice_index(data, range(index))

\* impl Index<Span<usize>> for str
index_str(data, index) == str_index(data, range(index))

\* impl IndexMut<Span<usize>> for str
index_mut_str(data, index) == str_index(data, range(index))

(***************************************************************************)
(* The caller: builds a span from a native range, then calls methods on it *)
(***************************************************************************)
NoRange == [start |-> 0, end |-> 0]

NoContainer == [kind |-> "slice", data |-> <<>>]

NoView == [ok |-> TRUE, data |-> <<>>]

\* Everything a call leaves as it was when no method has been called yet.
Idle ==
    /\ op = "none" /\ arg = 0 /\ other = NoSpan /\ r = NoSpan
    /\ res = FALSE /\ res2 = FALSE /\ rng = NoRange
    /\ it = NoRange /\ out = <<>> /\ out1 = <<>> /\ pass = 0
    /\ c = NoContainer /\ idx = NoSpan /\ view = NoView

\* `let s = Span::from(a..b);` for every a, b of every element type, in
\* both build profiles.
Init ==
    /\ T \in Types
    /\ overflow_checks \in BOOLEAN
    /\ rng0 \in RangeSet(T)
    /\ s = from(rng0)
    /\ pc = "ready"
    /\ Idle

Fixed == UNCHANGED <<T, overflow_checks, rng0, s>>

NoIter == UNCHANGED <<it, out, out1, pass>>

NoIndex == UNCHANGED <<c, idx, view>>

\* s.contains(elem)
ContainsCall(elem) ==
    /\ pc = "ready"
    /\ op' = "contains" /\ arg' = elem
    /\ res' = contains(clone(s), elem)
    /\ pc' = "done"
    /\ Fixed /\ NoIter /\ NoIndex
    /\ UNCHANGED <<other, r, res2, rng>>

\* s.is_empty()
IsEmptyCall ==
    /\ pc = "ready"
    /\ op' = "is_empty"
    /\ res' = is_empty(clone(s))
    /\ pc' = "done"
    /\ Fixed /\ NoIter /\ NoIndex
    /\ UNCHANGED <<arg, other, r, res2, rng>>

\* s.overlaps_with(o), and o.overlaps_with(s) on the same two values
OverlapsCall(o) ==
    /\ pc = "ready"
    /\ op' = "overlaps_with" /\ other' = o
    /\ res' = overlaps_with(clone(s), clone(o))
    /\ res2' = overlaps_with(clone(o), clone(s))
    /\ pc' = "done"
    /\ Fixed /\ NoIter /\ NoIndex
    /\ UNCHANGED <<arg, r, rng>>

\* let g = s.range(); let back = Span::from(g);
RangeCall ==
    /\ pc = "ready"
    /\ op' = "range"
    /\ rng' = range(clone(s))
    /\ r' = from(range(clone(s)))
    /\ pc' = "done"
    /\ Fixed /\ NoIter /\ NoIndex
    /\ UNCHANGED <<arg, other, res, res2>>

\* A copy-mutator called on the binding s; `self` is a copy of it.
WithStartInPlace(start) ==
    /\ pc = "ready"
    /\ op' = "with_start" /\ arg' = start
    /\ r' = with_start(clone(s), start)
    /\ s' = with_start(clone(s), start)
    /\ pc' = "done"
    /\ NoIter /\ NoIndex
    /\ UNCHANGED <<T, overflow_checks, rng0, other, res, res2, rng>>

\* s.with_start(start)
WithStartCall(start) ==
    /\ pc = "ready"
    /\ op' = "with_start" /\ arg' = start
    /\ r' = with_start(clone(s), start)
    /\ pc' = "done"
    /\ Fixed /\ NoIter /\ NoIndex
    /\ UNCHANGED <<other, res, res2, rng>>

\* s.with_end(end)
WithEndCall(end) ==
    /\ pc = "ready"
    /\ op' = "with_end" /\ arg' = end
    /\ r' = with_end(clone(s), end)
    /\ pc' = "done"
    /\ Fixed /\ NoIter /\ NoIndex
    /\ UNCHANGED <<other, res, res2, rng>>

\* s.span_at()
SpanAtCall ==
    /\ pc = "ready"
    /\ op' = "span_at"
    /\ r' = span_at(clone(s))
    /\ pc' = "done"
    /\ Fixed /\ NoIter /\ NoIndex
    /\ UNCHANGED <<arg, other, res, res2, rng>>

\* s.span_after()
SpanAfterCall ==
    /\ pc = "ready"
    /\ op' = "span_after"
    /\ r' = span_after(clone(s))
    /\ pc' = "done"
    /\ Fixed /\ NoIter /\ NoIndex
    /\ UNCHANGED <<arg, other, res, res2, rng>>

\* s.with_len(len): returns, or panics on overflow in a checked build
WithLenCall(len) ==
    LET w == with_len(T, clone(s), len, overflow_checks)
    IN  /\ pc = "ready"
        /\ op' = "with_len" /\ arg' = len
        /\ r' = w.span
        /\ pc' = IF w.ok THEN "done" ELSE "panicked"
        /\ Fixed /\ NoIter /\ NoIndex
        /\ UNCHANGED <<other, res, res2, rng>>

\* The results go out of scope; the binding s is still there and the next
\* call of a sequence of calls can be made on it.
Reset ==
    /\ pc \in {"done", "iterdone"}
    /\ pc' = "ready"
    /\ op' = "none" /\ arg' = 0 /\ other' = NoSpan /\ r' = NoSpan
    /\ res' = FALSE /\ res2' = FALSE /\ rng' = NoRange
    /\ it' = NoRange /\ out' = <<>> /\ out1' = <<>> /\ pass' = 0
    /\ c' = NoContainer /\ idx' = NoSpan /\ view' = NoView
    /\ Fixed

Next ==
    \/ \E elem \in Dom(T) : ContainsCall(elem)
    \/ IsEmptyCall
    \/ \E o \in SpanSet(T) : OverlapsCall(o)
    \/ RangeCall
    \/ \E n \in Dom(T) : WithStartCall(n)
    \/ \E n \in Dom(T) : WithEndCall(n)
    \/ \E len \in Dom(T) : WithLenCall(len)
    \/ SpanAtCall
    \/ SpanAfterCall
    \/ Reset

Spec == Init /\ [][Next]_vars

(***************************************************************************)
(* Properties of the predicates, conversions and copy-mutators (Spec)      *)
(***************************************************************************)
Called(name) == pc = "done" /\ op = name

Proper(sp) == sp.start < sp.end

\* The elements of type t lying in the half-open interval [a, b).
Elements(t, a, b) == {x \in Dom(t) : a <= x /\ x < b}

\* C1: s.contains(x) is true exactly when start <= x < end; a proper span
\* contains its start and not its end; a zero-width or crossed span contains
\* nothing.
C1_ContainsIffInRange ==
    Called("contains") =>
        /\ res = (s.start <= arg /\ arg < s.end)
        /\ (Proper(s) /\ arg = s.start => res)
        /\ (arg = s.end => ~res)
        /\ (s.start >= s.end => ~res)

C1_Witness ==
    /\ Called("contains")
    /\ Proper(s) /\ arg = s.start /\ res

\* C2: a.overlaps_with(b) is true exactly when a contains b.start or b
\* contains a.start, for all spans; so [0,3) does not overlap [3,6), [0,3)
\* overlaps [2,4), [2,4) overlaps [3,6) and [0,3) overlaps [0,0).
C2_OverlapsTwoClauses ==
    Called("overlaps_with") =>
        /\ res = (   (s.start <= other.start /\ other.start < s.end)
                  \/ (other.start <= s.start /\ s.start < other.end))
        /\ (s = RangeOf(0, 3) /\ other = RangeOf(3, 6) => ~res)
        /\ (s = RangeOf(0, 3) /\ other = RangeOf(2, 4) => res)
        /\ (s = RangeOf(2, 4) /\ other = RangeOf(3, 6) => res)
        /\ (s = RangeOf(0, 3) /\ other = RangeOf(0, 0) => res)

C2_Witness ==
    /\ Called("overlaps_with")
    /\ s = RangeOf(0, 3) /\ other = RangeOf(0, 0) /\ res

\* C3 as claimed: some pair of spans a, b of the element type gets different
\* answers from a.overlaps_with(b) and b.overlaps_with(a).
C3_Asymmetric ==
    \E a \in SpanSet(T), b \in SpanSet(T) :
        overlaps_with(a, b) # overlaps_with(b, a)

\* C3 (amended): overlaps_with is symmetric: a.overlaps_with(b) and
\* b.overlaps_with(a) give the same answer for all spans a and b, zero-width
\* and crossed ones included.
C3_Symmetric ==
    Called("overlaps_with") => res = res2

C3_Witness ==
    /\ Called("overlaps_with")
    /\ ~Proper(other) /\ Proper(s) /\ res /\ res2

\* C4: s.is_empty() is true exactly when start = end; a crossed span is
\* reported not empty although it contains no element and iterates to the
\* empty sequence.
C4_IsEmptyFieldEquality ==
    Called("is_empty") =>
        /\ res = (s.start = s.end)
        /\ (s.start > s.end =>
               /\ ~res
               /\ \A x \in Dom(T) : ~contains(s, x)
               /\ Collect(into_iter(s)) = <<>>)

C4_Witness ==
    /\ Called("is_empty")
    /\ s = RangeOf(5, 3) /\ ~res

\* C6: Span::from(start..end).range() is start..end again, crossed or not,
\* and the range converted back is a span with the original two fields.
C6_RoundTrip ==
    Called("range") =>
        /\ rng.start = rng0.start /\ rng.end = rng0.end
        /\ r.start = s.start /\ r.end = s.end
        /\ s.start = rng0.start /\ s.end = rng0.end

C6_Witness ==
    /\ Called("range")
    /\ rng0.start > rng0.end /\ rng = rng0

\* C7: no copy-mutator changes the span it is called on: after any sequence
\* of calls the binding still has the start and end it was built with; and
\* with_start / with_end return the receiver with only that field replaced.
C7_ReceiverUnchanged ==
    /\ s.start = rng0.start /\ s.end = rng0.end
    /\ (Called("with_start") => r.start = arg /\ r.end = s.end)
    /\ (Called("with_end") => r.start = s.start /\ r.end = arg)

C7_Witness ==
    /\ Called("with_start")
    /\ arg # s.start /\ r.start = arg /\ r # s

\* C8: s.with_len(len) keeps start and sets end to start + len by the
\* type's own addition: exact when representable, otherwise a panic or the
\* sum wrapped modulo 2^w, never a saturated value.
C8_WithLenAddition ==
    op = "with_len" =>
        IF s.start + arg \in Dom(T)
        THEN /\ pc = "done"
             /\ r.start = s.start /\ r.end = s.start + arg
        ELSE \/ pc = "panicked"
             \/ /\ pc = "done"
                /\ r.start = s.start
                /\ r.end \in Dom(T)
                /\ (r.end - (s.start + arg)) % (2^BitsOf(T)) = 0

C8_Witness ==
    /\ Called("with_len")
    /\ s.start + arg \notin Dom(T)
    /\ r.end # s.start + arg

\* C10: for two proper spans, overlaps_with is true exactly when they share
\* an element (max of the starts < min of the ends); with a zero-width span
\* it can be true with no element shared, as for [0,3) and [0,0).
C10_ProperSpansShareElement ==
    /\ (Called("overlaps_with") /\ Proper(s) /\ Proper(other)) =>
          /\ res = (Elements(T, s.start, s.end)
                        \cap Elements(T, other.start, other.end) # {})
          /\ res = ((IF s.start >= other.start THEN s.start ELSE other.start)
                        < (IF s.end <= other.end THEN s.end ELSE other.end))
    /\ (Called("overlaps_with") /\ s = RangeOf(0, 3) /\ other = RangeOf(0, 0)) =>
          /\ res
          /\ Elements(T, s.start, s.end)
                 \cap Elements(T, other.start, other.end) = {}

C10_Witness ==
    /\ Called("overlaps_with")
    /\ Proper(s) /\ Proper(other) /\ s # other /\ res
    /\ s.end > other.start /\ other.end > s.end

(***************************************************************************)
(* Iteration: `for i in s { .. }`, twice over the same copyable span       *)
(***************************************************************************)
NoCall == UNCHANGED <<arg, other, r, res, res2, rng>>

\* s.into_iter(): the loop takes a copy of s and turns it into a Range<T>
IntoIterCall ==
    /\ pc = "ready"
    /\ op' = "into_iter"
    /\ it' = into_iter(clone(s))
    /\ out' = <<>> /\ out1' = <<>> /\ pass' = 1
    /\ pc' = "iter"
    /\ Fixed /\ NoCall /\ NoIndex

\* One call of it.next(): Some(item) runs the loop body, None leaves the loop
IterNext ==
    LET n == RangeNext(it)
    IN  /\ pc = "iter"
        /\ it' = n.rg
        /\ out' = IF n.some THEN Append(out, n.item) ELSE out
        /\ pc' = IF n.some THEN "iter" ELSE "iterdone"
        /\ Fixed /\ NoCall /\ NoIndex
        /\ UNCHANGED <<op, out1, pass>>

\* A second loop over s, which the first loop did not consume
IterAgain ==
    /\ pc = "iterdone" /\ pass = 1
    /\ it' = into_iter(clone(s))
    /\ out1' = out /\ out' = <<>> /\ pass' = 2
    /\ pc' = "iter"
    /\ Fixed /\ NoCall /\ NoIndex
    /\ UNCHANGED op

NextIter ==
    \/ IntoIterCall
    \/ IterNext
    \/ IterAgain
    \/ Reset

\* A running loop keeps calling next() until it returns None.
SpecIter == Init /\ [][NextIter]_vars /\ WF_vars(IterNext)

\* Number of elements of [start, end).
Width(sp) == IF sp.start < sp.end THEN sp.end - sp.start ELSE 0

C5_Yielded ==
    /\ pc \in {"iter", "iterdone"} =>
          /\ Len(out) <= Width(s)
          /\ \A i \in 1..Len(out) : out[i] = s.start + (i - 1)
          /\ \A i \in 1..Len(out) : \A j \in 1..Len(out) :
                 i < j => out[i] < out[j]
    /\ pc = "iterdone" =>
          /\ Len(out) = Width(s)
          /\ {out[i] : i \in 1..Len(out)} = Elements(T, s.start, s.end)
          /\ (s.start >= s.end => out = <<>>)
          /\ (pass = 2 => out = out1)

\* C5: iterating a span terminates and yields start, start+1, .., end-1 in
\* strictly ascending order, exactly the contained elements, nothing when
\* start >= end; a second iteration of the same span yields the same again.
C5_IterationYieldsElements ==
    /\ []C5_Yielded
    /\ (pc = "iter") ~> (pc = "iterdone")

C5_Witness ==
    /\ pc = "iterdone" /\ pass = 2
    /\ s = RangeOf(2, 5)
    /\ out = <<2, 3, 4>> /\ out1 = <<2, 3, 4>>

(***************************************************************************)
(* Indexing a slice or a str with a Span<usize>                            *)
(***************************************************************************)
InitIndex ==
    /\ T = "usize"
    /\ overflow_checks \in BOOLEAN
    /\ rng0 \in RangeSet(T)
    /\ s = from(rng0)
    /\ pc = "ready"
    /\ Idle

\* The index expression is c[s], or c[s.with_len(len)] right after with_len.
IndexArg == IF pc = "ready" THEN clone(s) ELSE clone(r)

CanIndex == pc = "ready" \/ (pc = "done" /\ op = "with_len")

Indexed(name, cont, result) ==
    /\ CanIndex
    /\ op' = name
    /\ c' = cont /\ idx' = IndexArg
    /\ view' = result
    /\ pc' = IF result.ok THEN "done" ELSE "panicked"
    /\ Fixed /\ NoIter
    /\ UNCHANGED <<arg, other, r, res, res2, rng>>

\* &c[s]
IndexCall(cont) ==
    Indexed("index", cont,
            IF cont.kind = "str" THEN index_str(cont.data, IndexArg)
            ELSE index_slice(cont.data, IndexArg))

\* &mut c[s]
IndexMutCall(cont) ==
    Indexed("index_mut", cont,
            IF cont.kind = "str" THEN index_mut_str(cont.data, IndexArg)
            ELSE index_mut_slice(cont.data, IndexArg))

NextIndex ==
    \/ \E len \in Dom(T) : WithLenCall(len)
    \/ \E cont \in Containers : IndexCall(cont)
    \/ \E cont \in Containers : IndexMutCall(cont)
    \/ Reset

SpecIndex == InitIndex /\ [][NextIndex]_vars

IndexDone == op \in {"index", "index_mut"}

\* The elements of c at positions idx.start .. idx.end - 1.
ViewIsSubslice ==
    /\ pc = "done" /\ view.ok
    /\ Len(view.data) = idx.end - idx.start
    /\ \A i \in 1..Len(view.data) : view.data[i] = c.data[idx.start + i]

\* Position p is not inside a multi-byte character of the text c.
OnCharBoundary(p) ==
    \/ p = 0
    \/ p >= Len(c.data)
    \/ (c.data[p + 1] \div 64) # 2

IndexExamples ==
    /\ (c.data = HelloWorld /\ idx = RangeOf(6, 11)) =>
           view.data = <<119, 111, 114, 108, 100>>
    /\ (c.data = HelloWorld /\ s = RangeOf(6, 11) /\ arg = 2 /\ idx = r) =>
           view.data = <<119, 111>>

\* C9 as claimed: the index expression yields the elements at positions
\* start .. end-1 whenever start <= end <= len(c), for slices and text alike,
\* and fails when the span is crossed or reaches past the end.
C9_InBoundsAlwaysYields ==
    IndexDone =>
        /\ IF idx.start <= idx.end /\ idx.end <= Len(c.data)
           THEN ViewIsSubslice
           ELSE pc = "panicked"
        /\ IndexExamples

\* C9 (amended): the index expression yields the elements at positions
\* start .. end-1 when start <= end <= len(c) and, for a text container,
\* neither end lies inside a multi-byte character; it fails abruptly when the
\* span is crossed, reaches past the end, or (text) an end lies inside a
\* multi-byte character. "hello world"[6..11) is "world", with_len(2) "wo".
C9_IndexLikeNativeRange ==
    IndexDone =>
        /\ IF /\ idx.start <= idx.end /\ idx.end <= Len(c.data)
              /\ (c.kind = "str" =>
                     OnCharBoundary(idx.start) /\ OnCharBoundary(idx.end))
           THEN ViewIsSubslice
           ELSE pc = "panicked"
        /\ IndexExamples

C9_Witness ==
    /\ pc = "done" /\ op = "index"
    /\ c = [kind |-> "str", data |-> HelloWorld]
    /\ s = RangeOf(6, 11) /\ arg = 2 /\ idx = RangeOf(6, 8)
    /\ view = [ok |-> TRUE, data |-> <<119, 111>>]

====
